---- MODULE Spec2Model ----
(***************************************************************************)
(* cargo-depdiff: the lockfile diff of src/main.rs as a state machine.     *)
(*                                                                         *)
(* main reads two lockfiles, groups their packages by name                 *)
(* (packages_from_str), merge-joins the two name-ordered maps into a       *)
(* sequence of Add / Remove / Update operations (find_vers_diff for a name *)
(* on both sides), builds a Resolver over every record of the operations   *)
(* and prints one header line per operation, followed by the findings the  *)
(* flags ask for.                                                          *)
(*                                                                         *)
(* A Name, a Version and an Option<SourceId> are modelled by their rank in *)
(* the order the derived Ord of Dep uses: names and versions by 1, 2, ..., *)
(* the source None by 0 and Some(source) by 1, 2, ... (None < Some).       *)
(***************************************************************************)
EXTENDS Integers, Sequences, FiniteSets, TLC

\* Packages in one lockfile: the diff specifications, and the full run.
MaxLen == 3
RunLen == 2

Names == 1..2
Versions == 1..3
Sources == 0..1

VARIABLES pc, opts, repo, old, new, left, right, ops, idx, out, ret

vars == <<pc, opts, repo, old, new, left, right, ops, idx, out, ret>>

----------------------------------------------------------------------------
\* struct Dep and its derived Ord: name, then version, then source.

Dep == [name : Names, version : Versions, source : Sources]

DepLess(a, b) ==
    \/ a.name < b.name
    \/ a.name = b.name /\ a.version < b.version
    \/ a.name = b.name /\ a.version = b.version /\ a.source < b.source

Range(s) == {s[i] : i \in 1..Len(s)}

\* A lockfile's packages, in the order the file lists them.
RECURSIVE SeqsUpTo(_, _)
SeqsUpTo(S, n) ==
    IF n = 0 THEN {<<>>}
    ELSE LET shorter == SeqsUpTo(S, n - 1)
         IN shorter \cup {Append(s, x) : s \in shorter, x \in S}

----------------------------------------------------------------------------
\* packages_from_str: sort the packages, then push each onto the entry of
\* its name.  Packages that agree on (name, version, source) become equal
\* Deps, so the order sort_unstable leaves them in is not visible.

InsertSorted(s, d) ==
    SelectSeq(s, LAMBDA e : ~DepLess(d, e)) \o <<d>>
        \o SelectSeq(s, LAMBDA e : DepLess(d, e))

RECURSIVE sort_unstable(_)
sort_unstable(s) ==
    IF s = <<>> THEN <<>>
    ELSE InsertSorted(sort_unstable(SubSeq(s, 1, Len(s) - 1)), s[Len(s)])

\* Deps::new()
EmptyDeps == [n \in {} |-> <<>>]

\* packages.entry(pkg.name.clone()).or_default().push(pkg.into())
entry_push(packages, pkg) ==
    [n \in DOMAIN packages \cup {pkg.name} |->
        IF n = pkg.name
        THEN Append(IF n \in DOMAIN packages THEN packages[n] ELSE <<>>, pkg)
        ELSE packages[n]]

RECURSIVE push_all(_, _)
push_all(packages, pkgs) ==
    IF pkgs = <<>> THEN packages
    ELSE push_all(entry_push(packages, Head(pkgs)), Tail(pkgs))

packages_from_str(data) == push_all(EmptyDeps, sort_unstable(data))

----------------------------------------------------------------------------
\* enum Op

Add(dep) == <<"Add", dep>>
Remove(dep) == <<"Remove", dep>>
Update(o, n) == <<"Update", o, n>>

OpKind(op) == op[1]
OpName(op) == op[2].name

\* A wrap_op that walks the vector backwards.
wrap_op_reversed(op, desp) ==
    [i \in 1..Len(desp) |-> <<op, desp[Len(desp) + 1 - i]>>]

wrap_op(op, desp) == [i \in 1..Len(desp) |-> <<op, desp[i]>>]

\* A BTreeSet<Dep> read in iteration order.
RECURSIVE IntoSortedVec(_)
IntoSortedVec(S) ==
    IF S = {} THEN <<>>
    ELSE LET m == CHOOSE x \in S : \A y \in S : ~DepLess(y, x)
         IN <<m>> \o IntoSortedVec(S \ {m})

Min(a, b) == IF a < b THEN a ELSE b

\* A find_vers_diff that leaves the unchanged records in both sets.
find_vers_diff_keep_unchanged(oldVec, newVec) ==
    LET oldLeft == IntoSortedVec(Range(oldVec))
        newLeft == IntoSortedVec(Range(newVec))
        common == Min(Len(oldLeft), Len(newLeft))
        removed == SubSeq(oldLeft, common + 1, Len(oldLeft))
        added == SubSeq(newLeft, common + 1, Len(newLeft))
        updates == [i \in 1..common |-> Update(oldLeft[i], newLeft[i])]
    IN wrap_op("Remove", removed) \o updates \o wrap_op("Add", added)

\* A find_vers_diff that chains the updates before the removals.
find_vers_diff_updates_first(oldVec, newVec) ==
    LET unchanged == Range(oldVec) \cap Range(newVec)
        oldLeft == IntoSortedVec(Range(oldVec) \ unchanged)
        newLeft == IntoSortedVec(Range(newVec) \ unchanged)
        common == Min(Len(oldLeft), Len(newLeft))
        removed == SubSeq(oldLeft, common + 1, Len(oldLeft))
        added == SubSeq(newLeft, common + 1, Len(newLeft))
        updates == [i \in 1..common |-> Update(oldLeft[i], newLeft[i])]
    IN updates \o wrap_op("Remove", removed) \o wrap_op("Add", added)

\* A find_vers_diff that never pairs: every leftover is a Remove or an Add.
find_vers_diff_no_pairing(oldVec, newVec) ==
    LET unchanged == Range(oldVec) \cap Range(newVec)
    IN wrap_op("Remove", IntoSortedVec(Range(oldVec) \ unchanged))
           \o wrap_op("Add", IntoSortedVec(Range(newVec) \ unchanged))

find_vers_diff(oldVec, newVec) ==
    LET oldAll == Range(oldVec)
        newAll == Range(newVec)
        unchanged == oldAll \cap newAll
        oldLeft == IntoSortedVec(oldAll \ unchanged)
        newLeft == IntoSortedVec(newAll \ unchanged)
        common == Min(Len(oldLeft), Len(newLeft))
        removed == SubSeq(oldLeft, common + 1, Len(oldLeft))
        added == SubSeq(newLeft, common + 1, Len(newLeft))
        updates == [i \in 1..common |-> Update(oldLeft[i], newLeft[i])]
    IN wrap_op("Remove", removed) \o updates \o wrap_op("Add", added)

----------------------------------------------------------------------------
\* The merge-join of main over the two maps, both read in key order.

\* BTreeMap::into_iter: the keys in ascending order.
RECURSIVE Keys(_)
Keys(S) ==
    IF S = {} THEN <<>>
    ELSE LET m == CHOOSE x \in S : \A y \in S : x <= y
         IN <<m>> \o Keys(S \ {m})

\* A merge_join_by whose comparison is r.0.cmp(&l.0).
merge_join_by_flipped(l, r) ==
    IF l = <<>> /\ r = <<>> THEN "None"
    ELSE IF r = <<>> THEN "Left"
    ELSE IF l = <<>> THEN "Right"
    ELSE IF Head(r) < Head(l) THEN "Left"
    ELSE IF Head(l) < Head(r) THEN "Right"
    ELSE "Both"

\* merge_join_by(new, |l, r| l.0.cmp(&r.0)): which side the next group is.
merge_join_by(l, r) ==
    IF l = <<>> /\ r = <<>> THEN "None"
    ELSE IF r = <<>> THEN "Left"
    ELSE IF l = <<>> THEN "Right"
    ELSE IF Head(l) < Head(r) THEN "Left"
    ELSE IF Head(r) < Head(l) THEN "Right"
    ELSE "Both"

\* The closure of flat_map on one group.
dep_group(side, l, r, o, n) ==
    IF side = "Left" THEN wrap_op("Remove", o[Head(l)])
    ELSE IF side = "Right" THEN wrap_op("Add", n[Head(r)])
    ELSE find_vers_diff(o[Head(l)], n[Head(r)])

\* The whole chain, collected: main's `ops` for two given maps.
RECURSIVE collect(_, _, _, _)
collect(l, r, o, n) ==
    LET side == merge_join_by(l, r)
    IN IF side = "None" THEN <<>>
       ELSE dep_group(side, l, r, o, n)
                \o collect(IF side = "Right" THEN l ELSE Tail(l),
                           IF side = "Left" THEN r ELSE Tail(r), o, n)

diff(o, n) == collect(Keys(DOMAIN o), Keys(DOMAIN n), o, n)

----------------------------------------------------------------------------
\* Opts: the revision argument and the two flags.

Opts == [revspec : {"none", "range", "single"},
         metadata : BOOLEAN, changelog : BOOLEAN]

----------------------------------------------------------------------------
\* Steps of main shared by every specification.

\* packages_from_git / packages_from_str for the old side succeeded.
LoadOld(texts) ==
    /\ pc = "old"
    /\ \E data \in texts : old' = packages_from_str(data)
    /\ pc' = "new"
    /\ UNCHANGED <<opts, repo, new, left, right, ops, idx, out, ret>>

\* The new side succeeded; the merge-join starts over both maps.
LoadNew(texts) ==
    /\ pc = "new"
    /\ \E data \in texts :
          /\ new' = packages_from_str(data)
          /\ right' = Keys(DOMAIN new')
    /\ left' = Keys(DOMAIN old)
    /\ pc' = "merge"
    /\ UNCHANGED <<opts, repo, old, ops, idx, out, ret>>

\* EitherOrBoth::Left(remove)
MergeLeft ==
    /\ pc = "merge"
    /\ merge_join_by(left, right) = "Left"
    /\ ops' = ops \o dep_group("Left", left, right, old, new)
    /\ left' = Tail(left)
    /\ UNCHANGED <<pc, opts, repo, old, new, right, idx, out, ret>>

\* EitherOrBoth::Right(add)
MergeRight ==
    /\ pc = "merge"
    /\ merge_join_by(left, right) = "Right"
    /\ ops' = ops \o dep_group("Right", left, right, old, new)
    /\ right' = Tail(right)
    /\ UNCHANGED <<pc, opts, repo, old, new, left, idx, out, ret>>

\* EitherOrBoth::Both(old, new)
MergeBoth ==
    /\ pc = "merge"
    /\ merge_join_by(left, right) = "Both"
    /\ ops' = ops \o dep_group("Both", left, right, old, new)
    /\ left' = Tail(left)
    /\ right' = Tail(right)
    /\ UNCHANGED <<pc, opts, repo, old, new, idx, out, ret>>

\* .collect::<Vec<_>>(): both iterators are exhausted.
Collect ==
    /\ pc = "merge"
    /\ merge_join_by(left, right) = "None"
    /\ pc' = "resolver"
    /\ UNCHANGED <<opts, repo, old, new, left, right, ops, idx, out, ret>>

----------------------------------------------------------------------------
\* The diff on its own: both lockfiles are readable, main runs from the
\* first packages_from_git to the collected operations.

DiffDeps == {d \in Dep : d.version <= 2}
DiffTexts == SeqsUpTo(DiffDeps, MaxLen)

InitDiff ==
    /\ pc = "old"
    /\ opts = [revspec |-> "range", metadata |-> FALSE, changelog |-> FALSE]
    /\ repo = [rev |-> "commit"]
    /\ old = EmptyDeps
    /\ new = EmptyDeps
    /\ left = <<>>
    /\ right = <<>>
    /\ ops = <<>>
    /\ idx = 0
    /\ out = <<>>
    /\ ret = "running"

NextDiff ==
    \/ LoadOld(DiffTexts)
    \/ LoadNew(DiffTexts)
    \/ MergeLeft
    \/ MergeRight
    \/ MergeBoth
    \/ Collect

SpecDiff == InitDiff /\ [][NextDiff]_vars

\* One name with three versions on each side: find_vers_diff in depth.
VersDeps == {d \in Dep : d.name = 1}
VersTexts == SeqsUpTo(VersDeps, MaxLen)

NextVers ==
    \/ LoadOld(VersTexts)
    \/ LoadNew(VersTexts)
    \/ MergeLeft
    \/ MergeRight
    \/ MergeBoth
    \/ Collect

SpecVers == InitDiff /\ [][NextVers]_vars

----------------------------------------------------------------------------
\* Packages as the Resolver hands them out, and what the report prints.

\* A text is the sequence of its lines as split("\n") gives them: at least
\* one line, and the empty line is 0.  The empty string is one empty line.
EmptyText == <<0>>

\* get_changelog: Err, or the file's text (empty without a CHANGELOG.md).
Readable(text) == [ok |-> TRUE, lines |-> text]
Unread == [ok |-> FALSE, lines |-> EmptyText]

\* CHANGELOG.md is "c1".
Plain ==
    [build |-> FALSE, proc_macro |-> FALSE, license |-> 1, license_file |-> 0,
     authors |-> {1}, changelog |-> Readable(<<1>>)]
\* CHANGELOG.md is "c2\nc1": a new entry on top.
Rich ==
    [build |-> TRUE, proc_macro |-> TRUE, license |-> 2, license_file |-> 1,
     authors |-> {1, 2}, changelog |-> Readable(<<2, 1>>)]
\* CHANGELOG.md is "c1\n": the line and a trailing empty one.
Newline ==
    [build |-> FALSE, proc_macro |-> FALSE, license |-> 1, license_file |-> 0,
     authors |-> {1}, changelog |-> Readable(<<1, 0>>)]
\* No CHANGELOG.md: ErrorKind::NotFound gives String::new().
Bare ==
    [build |-> FALSE, proc_macro |-> FALSE, license |-> 1, license_file |-> 0,
     authors |-> {1}, changelog |-> Readable(EmptyText)]
Unreadable ==
    [build |-> FALSE, proc_macro |-> FALSE, license |-> 1, license_file |-> 0,
     authors |-> {1}, changelog |-> Unread]

Packages == {Plain, Rich, Newline, Bare, Unreadable}

\* Resolver::pkg: an error, no package, or the package.
PkgErr == [tag |-> "Err", pkg |-> Plain]
PkgNone == [tag |-> "None", pkg |-> Plain]
PkgSome(p) == [tag |-> "Some", pkg |-> p]
PkgResults == {PkgErr, PkgNone} \cup {PkgSome(p) : p \in Packages}

\* One println: the mark the line starts with, its wording, its values.
Header(mark, args) == [mark |-> mark, text |-> "", args |-> args]
Finding(cond, text, args) ==
    IF cond THEN <<[mark |-> "-->", text |-> text, args |-> args]>> ELSE <<>>

\* impl Display for Op
fmt(op) ==
    IF OpKind(op) = "Add" THEN Header("+++", <<op[2].name, op[2].version>>)
    ELSE IF OpKind(op) = "Remove"
    THEN Header("---", <<op[2].name, op[2].version>>)
    ELSE Header("   ", <<op[2].name, op[2].version, op[3].version>>)

\* Changeset::new(&old, &new, "\n") is lcs, then merge, over the lines.

\* lcs: the table idx, with rows i over the lines of a and columns j over
\* the lines of b.
RECURSIVE lcs_idx(_, _, _, _)
lcs_idx(a, b, i, j) ==
    IF a[i] = b[j]
    THEN IF i = 1 \/ j = 1 THEN 1 ELSE lcs_idx(a, b, i - 1, j - 1) + 1
    ELSE IF i = 1 THEN IF j = 1 THEN 0 ELSE lcs_idx(a, b, i, j - 1)
    ELSE IF j = 1 THEN lcs_idx(a, b, i - 1, j)
    ELSE LET before == lcs_idx(a, b, i, j - 1)
             above == lcs_idx(a, b, i - 1, j)
         IN IF before < above THEN above ELSE before

\* idx[ui * M + uj - 1]: the cell to the left in the flat table, which in
\* the first column is the last cell of the row above.
lcs_left(a, b, i, j) ==
    IF j = 1 THEN lcs_idx(a, b, i - 1, Len(b)) ELSE lcs_idx(a, b, i, j - 1)

\* lcs: the walk back from the last cell, collecting the common lines.
RECURSIVE lcs_walk(_, _, _, _)
lcs_walk(a, b, i, j) ==
    IF i < 1 \/ j < 1 THEN <<>>
    ELSE IF a[i] = b[j] THEN Append(lcs_walk(a, b, i - 1, j - 1), a[i])
    ELSE IF i = 1 /\ j = 1 THEN <<>>
    ELSE IF i = 1 \/ lcs_left(a, b, i, j) > lcs_idx(a, b, i - 1, j)
    THEN lcs_walk(a, b, i, j - 1)
    ELSE lcs_walk(a, b, i - 1, j)

\* lcs: the common lines, joined into one text.
lcs(a, b) ==
    LET common == lcs_walk(a, b, Len(a), Len(b))
    IN IF common = <<>> THEN EmptyText ELSE common

\* merge: the lines of a text, an empty text having none.
merge_lines(text) == IF text = EmptyText THEN <<>> ELSE text

\* merge: how many lines lead all three of l, r and c.
RECURSIVE merge_same(_, _, _)
merge_same(l, r, c) ==
    IF /\ l # <<>> /\ r # <<>> /\ c # <<>>
       /\ Head(l) = Head(c) /\ Head(r) = Head(c)
    THEN 1 + merge_same(Tail(l), Tail(r), Tail(c))
    ELSE 0

\* merge: how many lines of x come before the next common line.
RECURSIVE merge_other(_, _)
merge_other(x, c) ==
    IF x # <<>> /\ ~(c # <<>> /\ Head(x) = Head(c))
    THEN 1 + merge_other(Tail(x), c)
    ELSE 0

Drop(x, k) == SubSeq(x, k + 1, Len(x))

\* merge: the lines of the Difference::Add parts, in order.  A round that
\* moves nothing ends the walk.
RECURSIVE merge_adds(_, _, _)
merge_adds(l, r, c) ==
    IF l = <<>> /\ r = <<>> THEN <<>>
    ELSE LET same == merge_same(l, r, c)
             l1 == Drop(l, same)
             r1 == Drop(r, same)
             c1 == Drop(c, same)
             rem == merge_other(l1, c1)
             add == merge_other(r1, c1)
         IN IF same + rem + add = 0 THEN <<>>
            ELSE SubSeq(r1, 1, add)
                     \o merge_adds(Drop(l1, rem), Drop(r1, add), c1)

\* changelog_diff: the added parts joined by "\n"; no part at all joins to
\* the empty string.
changelog_diff(o, n) ==
    LET added == merge_adds(merge_lines(o), merge_lines(n),
                            merge_lines(lcs(o, n)))
    IN IF added = <<>> THEN EmptyText ELSE added

\* The match on (get_changelog(old.root()), get_changelog(new.root())),
\* with its test `diff != ""`.
changelog_lines(o, n) ==
    IF ~o.changelog.ok \/ ~n.changelog.ok
    THEN Finding(TRUE, "Error while reading CHANGELOG", <<>>)
    ELSE LET d == changelog_diff(o.changelog.lines, n.changelog.lines)
         IN Finding(d # EmptyText, "Additions to CHANGELOG", d)

\* A set of authors joined in the order of the BTreeSet.
RECURSIVE Joined(_)
Joined(S) ==
    IF S = {} THEN <<>>
    ELSE LET m == CHOOSE x \in S : \A y \in S : x <= y
         IN <<m>> \o Joined(S \ {m})

Failed == [err |-> TRUE, lines |-> <<>>]
Printed(lines) == [err |-> FALSE, lines |-> lines]

\* Op::print_metadata, with r1 and r2 the results of resolver.pkg for the
\* operation's first and second record.
print_metadata(op, r1, r2, changelog) ==
    IF OpKind(op) = "Remove" THEN Printed(<<>>)
    ELSE IF OpKind(op) = "Add"
    THEN IF r1.tag = "Err" THEN Failed
         ELSE IF r1.tag = "None" THEN Printed(<<>>)
         ELSE Printed(Finding(r1.pkg.build, "Has a build script", <<>>)
                          \o Finding(r1.pkg.proc_macro, "Is a proc macro", <<>>))
    ELSE IF r1.tag = "Err" \/ r2.tag = "Err" THEN Failed
    ELSE IF r1.tag = "None" \/ r2.tag = "None" THEN Printed(<<>>)
    ELSE LET o == r1.pkg
             n == r2.pkg
             added_authors == n.authors \ o.authors
         IN Printed(
                Finding(~o.build /\ n.build, "Adds a build script", <<>>)
                    \o Finding(~o.proc_macro /\ n.proc_macro,
                               "Turns into a build script", <<>>)
                    \o Finding(o.license # n.license, "License changed",
                               <<o.license, n.license>>)
                    \o Finding(o.license_file # n.license_file,
                               "License file changed",
                               <<o.license_file, n.license_file>>)
                    \o Finding(added_authors # {}, "Additional authors",
                               Joined(added_authors))
                    \o (IF changelog THEN changelog_lines(o, n) ELSE <<>>))

\* Op::print_changelog
print_changelog(op, r1, r2) ==
    IF OpKind(op) # "Update" THEN Printed(<<>>)
    ELSE IF r1.tag = "Err" \/ r2.tag = "Err" THEN Failed
    ELSE IF r1.tag = "None" \/ r2.tag = "None" THEN Printed(<<>>)
    ELSE Printed(changelog_lines(r1.pkg, r2.pkg))

----------------------------------------------------------------------------
\* main, from Repository::open to the last println.

\* `?`: main returns the error.
Return(e) ==
    /\ pc' = "done"
    /\ ret' = e
    /\ UNCHANGED <<opts, repo, old, new, left, right, ops, idx, out>>

Goto(label) ==
    /\ pc' = label
    /\ UNCHANGED <<opts, repo, old, new, left, right, ops, idx, out, ret>>

OpenRepo ==
    /\ pc = "open"
    /\ \E ok \in BOOLEAN :
          IF ok THEN Goto("revs") ELSE Return("Can't open git repo")

\* a..b mode
RangeMode ==
    /\ pc = "revs"
    /\ opts.revspec = "range"
    /\ IF repo.rev = "bad" THEN Return("revparse") ELSE Goto("old")

\* A single-commit mode that compares a parentless commit with itself.
SingleMode_without_parent_check ==
    /\ pc = "revs"
    /\ opts.revspec = "single"
    /\ IF repo.rev = "bad" THEN Return("revparse")
       ELSE IF repo.rev = "none" THEN Return("NotSpec")
       ELSE IF repo.rev = "blob" THEN Return("is not a commit")
       ELSE Goto("old")

\* single-commit: compare to its first parent.
SingleMode ==
    /\ pc = "revs"
    /\ opts.revspec = "single"
    /\ IF repo.rev = "bad" THEN Return("revparse")
       ELSE IF repo.rev = "none" THEN Return("NotSpec")
       ELSE IF repo.rev = "blob" THEN Return("is not a commit")
       ELSE IF repo.rev = "root" THEN Return("NoParent")
       ELSE Goto("old")

\* No revspec: HEAD against the working tree.
HeadMode ==
    /\ pc = "revs"
    /\ opts.revspec = "none"
    /\ \E outcome \in {"ok", "Failed to get current HEAD",
                       "Can't resolve HEAD to commit"} :
          IF outcome = "ok" THEN Goto("old") ELSE Return(outcome)

\* The old lockfile cannot be found, read or parsed.
LoadOldFail ==
    /\ pc = "old"
    /\ Return(IF opts.revspec = "none" THEN "Reading HEAD lock file"
              ELSE "Failed to decode old version")

\* The new lockfile cannot be found, read or parsed.
LoadNewFail ==
    /\ pc = "new"
    /\ \E e \in IF opts.revspec = "none"
                THEN {"Failed to read current lock file",
                      "is not valid lock file"}
                ELSE {"Failed to decode new version"} :
          Return(e)

\* Config::default()? and Resolver::new(&config, all_deps)?
NewResolver ==
    /\ pc = "resolver"
    /\ \E outcome \in {"ok", "Config::default", "Resolver::new"} :
          IF outcome = "ok"
          THEN /\ pc' = "print"
               /\ idx' = 1
               /\ UNCHANGED <<opts, repo, old, new, left, right, ops, out, ret>>
          ELSE Return(outcome)

\* One round of `for op in &ops`.
PrintOp ==
    /\ pc = "print"
    /\ idx <= Len(ops)
    /\ \E r1, r2 \in PkgResults :
          LET op == ops[idx]
              res == IF opts.metadata
                     THEN print_metadata(op, r1, r2, opts.changelog)
                     ELSE IF opts.changelog THEN print_changelog(op, r1, r2)
                     ELSE Printed(<<>>)
          IN /\ out' = out \o <<fmt(op)>> \o res.lines
             /\ IF res.err
                THEN pc' = "done" /\ ret' = "Resolver::pkg" /\ idx' = idx
                ELSE pc' = pc /\ ret' = ret /\ idx' = idx + 1
    /\ UNCHANGED <<opts, repo, old, new, left, right, ops>>

\* Ok(())
Finish ==
    /\ pc = "print"
    /\ idx > Len(ops)
    /\ pc' = "done"
    /\ ret' = "Ok"
    /\ UNCHANGED <<opts, repo, old, new, left, right, ops, idx, out>>

\* What the revision expression names: nothing parsable, no object, an
\* object that is no commit, a commit without parent, a commit with one.
Revs == {"bad", "none", "blob", "root", "commit"}

RunDeps == {d \in Dep : d.version <= 2 /\ d.source = 0}
RunTexts == SeqsUpTo(RunDeps, RunLen)

Init ==
    /\ pc = "open"
    /\ opts \in Opts
    /\ repo \in [rev : Revs]
    /\ opts.revspec = "none" => repo.rev = "commit"
    /\ opts.revspec = "range" => repo.rev \in {"bad", "commit"}
    /\ old = EmptyDeps
    /\ new = EmptyDeps
    /\ left = <<>>
    /\ right = <<>>
    /\ ops = <<>>
    /\ idx = 0
    /\ out = <<>>
    /\ ret = "running"

Next ==
    \/ OpenRepo
    \/ RangeMode
    \/ SingleMode
    \/ HeadMode
    \/ LoadOld(RunTexts)
    \/ LoadOldFail
    \/ LoadNew(RunTexts)
    \/ LoadNewFail
    \/ MergeLeft
    \/ MergeRight
    \/ MergeBoth
    \/ Collect
    \/ NewResolver
    \/ PrintOp
    \/ Finish

Spec == Init /\ [][Next]_vars

----------------------------------------------------------------------------
\* Reading the collected operations.

\* main is past .collect(): ops is the complete operation sequence.
Collected ==
    \/ pc \in {"resolver", "print"}
    \/ pc = "done"
           /\ ret \in {"Ok", "Config::default", "Resolver::new", "Resolver::pkg"}

InBoth == DOMAIN old \cap DOMAIN new

OpsNamed(n) == SelectSeq(ops, LAMBDA op : OpName(op) = n)
OpsOfKind(kind, n) ==
    SelectSeq(ops, LAMBDA op : OpKind(op) = kind /\ OpName(op) = n)
DepsOf(opSeq) == [i \in 1..Len(opSeq) |-> opSeq[i][2]]

RecordsOf(m, n) == IF n \in DOMAIN m THEN Range(m[n]) ELSE {}
ListOf(m, n) == IF n \in DOMAIN m THEN m[n] ELSE <<>>

\* The records of S in ascending order: the i-th has i - 1 smaller ones.
Ranked(S) ==
    [i \in 1..Cardinality(S) |->
        CHOOSE x \in S : Cardinality({y \in S : DepLess(y, x)}) = i - 1]

\* The records of name n on one side only, in sorted order.
old_rem(n) == Ranked(RecordsOf(old, n) \ RecordsOf(new, n))
new_rem(n) == Ranked(RecordsOf(new, n) \ RecordsOf(old, n))

Max(a, b) == IF a < b THEN b ELSE a

A10 == [name |-> 1, version |-> 1, source |-> 0]
A11 == [name |-> 1, version |-> 2, source |-> 0]
A20 == [name |-> 1, version |-> 3, source |-> 0]

\* C1: a snapshot diffed against itself gives no operation at all, at every
\* step of the merge-join and in the collected result.
C1_SelfDiffEmpty == (pc = "merge" \/ Collected) /\ old = new => ops = <<>>

C1_Witness ==
    /\ Collected
    /\ old = new
    /\ Cardinality(DOMAIN old) = 2
    /\ \E n \in DOMAIN old : Len(old[n]) = 2

\* C3: with disjoint name sets the result has no Update, and for every name
\* its Removes are the old records of that name, one each and in the old
\* list's order, and its Adds are the new records of that name, one each and
\* in the new list's order.
C3_DisjointNames ==
    Collected /\ InBoth = {} =>
        /\ \A i \in 1..Len(ops) : OpKind(ops[i]) # "Update"
        /\ \A n \in Names :
              /\ DepsOf(OpsOfKind("Remove", n)) = ListOf(old, n)
              /\ DepsOf(OpsOfKind("Add", n)) = ListOf(new, n)

C3_Witness ==
    /\ Collected
    /\ InBoth = {}
    /\ \E n \in DOMAIN old : Len(old[n]) = 2 /\ old[n][1] # old[n][2]
    /\ \E n \in DOMAIN new : Len(new[n]) >= 1
    /\ Len(ops) = 3

\* C4: for a name on both sides the operations of that name are the Removes
\* of old_rem beyond k, then the Updates of the first k pairs, then the Adds
\* of new_rem beyond k, each in index order; the two examples of the
\* specification come out as stated.
C4_Reconciliation ==
    Collected =>
        /\ \A n \in InBoth :
              LET o == old_rem(n)
                  w == new_rem(n)
                  k == Min(Len(o), Len(w))
              IN OpsNamed(n) =
                     [i \in 1..(Len(o) - k) |-> Remove(o[k + i])]
                         \o [i \in 1..k |-> Update(o[i], w[i])]
                         \o [i \in 1..(Len(w) - k) |-> Add(w[k + i])]
        /\ (old = (1 :> <<A10, A11>>) /\ new = (1 :> <<A11, A20>>)
                => ops = <<Update(A10, A20)>>)
        /\ (old = (1 :> <<A10>>) /\ new = (1 :> <<A10, A20>>)
                => ops = <<Add(A20)>>)

\* Two removals behind one update: the order of the three parts shows.
C4_Witness ==
    /\ Collected
    /\ 1 \in InBoth
    /\ Len(old_rem(1)) = 3
    /\ Len(new_rem(1)) = 1
    /\ Len(ops) = 3
    /\ OpKind(ops[1]) = "Remove"
    /\ OpKind(ops[3]) = "Update"

\* C5: the names of the operations never decrease along the sequence, so
\* the operations of one name are contiguous and every group is appended
\* behind the groups of all smaller names.
C5_NamesAscending ==
    \A i, j \in 1..Len(ops) : i < j => OpName(ops[i]) <= OpName(ops[j])

C5_Witness ==
    /\ Collected
    /\ 1 \in InBoth
    /\ 2 \in DOMAIN old \ DOMAIN new
    /\ Len(OpsNamed(1)) = 2
    /\ Len(OpsNamed(2)) = 1

\* C10: no name has both a Remove and an Add; an Update keeps the name and
\* changes the (version, source) pair; a name on both sides has
\* max(len(old_rem), len(new_rem)) operations.
C10_Minimal ==
    Collected =>
        /\ \A n \in Names :
              OpsOfKind("Remove", n) = <<>> \/ OpsOfKind("Add", n) = <<>>
        /\ \A i \in 1..Len(ops) :
              OpKind(ops[i]) = "Update" =>
                  /\ ops[i][2].name = ops[i][3].name
                  /\ <<ops[i][2].version, ops[i][2].source>>
                         # <<ops[i][3].version, ops[i][3].source>>
        /\ \A n \in InBoth :
              Len(OpsNamed(n)) = Max(Len(old_rem(n)), Len(new_rem(n)))

\* An update that changes the source only, next to a removal of the name.
C10_Witness ==
    /\ Collected
    /\ \E i \in 1..Len(ops) :
          /\ OpKind(ops[i]) = "Update"
          /\ ops[i][2].version = ops[i][3].version
    /\ \E i \in 1..Len(ops) : OpKind(ops[i]) = "Remove"
    /\ \E n \in InBoth : Len(old[n]) = 3

\* The two examples of the specification, reached.
C4_Example1 ==
    Collected /\ old = (1 :> <<A10, A11>>) /\ new = (1 :> <<A11, A20>>)
C4_Example2 ==
    Collected /\ old = (1 :> <<A10>>) /\ new = (1 :> <<A10, A20>>)

CountIn(s, d) == Cardinality({i \in 1..Len(s) : s[i] = d})
OldSide(d) ==
    Cardinality({i \in 1..Len(ops) :
                    OpKind(ops[i]) \in {"Remove", "Update"} /\ ops[i][2] = d})
NewSide(d) ==
    Cardinality({i \in 1..Len(ops) :
                    \/ OpKind(ops[i]) = "Add" /\ ops[i][2] = d
                    \/ OpKind(ops[i]) = "Update" /\ ops[i][3] = d})

\* C2: conservation of records.  Every record occurs among the Removes and
\* the old sides of the Updates as often as the old list of its name holds
\* it, or not at all when the new list holds it too; likewise for the Adds,
\* the new sides and the new list; and no record fills more than one
\* position of the output.
C2_Conservation ==
    Collected =>
        \A d \in Dep :
            /\ OldSide(d) = IF d \in RecordsOf(new, d.name) THEN 0
                            ELSE CountIn(ListOf(old, d.name), d)
            /\ NewSide(d) = IF d \in RecordsOf(old, d.name) THEN 0
                            ELSE CountIn(ListOf(new, d.name), d)
            /\ OldSide(d) + NewSide(d) <= 1

\* The snapshot holding every record of m once.
Deduplicated(m) == [n \in DOMAIN m |-> Ranked(Range(m[n]))]

\* C9: the operations depend only on the sets of records of the two
\* snapshots: they are the operations of the two snapshots that hold the
\* same records once each.
C9_OnlyRecordSets ==
    Collected => ops = diff(Deduplicated(old), Deduplicated(new))

\* What does hold: the collected operations are a function of the two maps,
\* and a snapshot does not depend on the order its lockfile lists the
\* packages in: parsing its records listed backwards gives it again.
CollectedIsDiff == Collected => ops = diff(old, new)

RECURSIVE Listing(_, _)
Listing(m, keys) ==
    IF keys = <<>> THEN <<>> ELSE m[Head(keys)] \o Listing(m, Tail(keys))

Reversed(s) == [i \in 1..Len(s) |-> s[Len(s) + 1 - i]]

ListingOrderIrrelevant ==
    /\ packages_from_str(Reversed(Listing(old, Keys(DOMAIN old)))) = old
    /\ packages_from_str(Reversed(Listing(new, Keys(DOMAIN new)))) = new

----------------------------------------------------------------------------
\* Reading the report.

HeadersOf(lines) == SelectSeq(lines, LAMBDA l : l.mark # "-->")
FindingsOf(lines) == SelectSeq(lines, LAMBDA l : l.mark = "-->")
AllHeaders == [i \in 1..Len(ops) |-> fmt(ops[i])]

\* The errors of resolving the revisions and of loading the two lockfiles.
RevisionErrors == {"revparse", "NotSpec", "is not a commit", "NoParent"}
LockfileErrors ==
    {"Reading HEAD lock file", "Failed to decode old version",
     "Failed to read current lock file", "is not valid lock file",
     "Failed to decode new version"}

\* C6: a record that cannot be resolved costs its own operation's findings
\* only: a run that got as far as resolving the records of its operations
\* ends Ok with the header line of every operation printed.
C6_ResolutionLocal ==
    /\ pc = "done"
    /\ ops # <<>>
    /\ ret \in {"Ok", "Resolver::new", "Resolver::pkg"}
    => /\ ret = "Ok"
       /\ HeadersOf(out) = AllHeaders

\* C7: once the repository is open, a commit without parent in
\* single-commit mode ends the run with the no-parent error, and a run that
\* ends with an error of the revisions or of either lockfile has printed
\* nothing.
C7_FatalBeforeOutput ==
    /\ /\ opts.revspec = "single"
       /\ repo.rev = "root"
       /\ pc \notin {"open", "revs"}
       /\ ret # "Can't open git repo"
       => pc = "done" /\ ret = "NoParent"
    /\ ret \in RevisionErrors \cup LockfileErrors
           => pc = "done" /\ out = <<>> /\ ops = <<>>

C7_Witness ==
    /\ pc = "done"
    /\ ret = "NoParent"
    /\ opts.metadata
    /\ opts.changelog

\* A lockfile error behind a loaded old side, with both flags set.
C7_LockfileWitness ==
    /\ pc = "done"
    /\ ret = "Failed to decode new version"
    /\ old # EmptyDeps
    /\ opts.metadata

\* C8: with the changelog flag and without the metadata flag the report is
\* the report of no flag at all: header lines only, and no run ends on a
\* package lookup.
C8_ChangelogNeedsMetadata ==
    opts.changelog /\ ~opts.metadata =>
        /\ FindingsOf(out) = <<>>
        /\ ret # "Resolver::pkg"

\* What the code does instead: without any flag nothing but headers.
NoFlagsHeadersOnly ==
    ~opts.changelog /\ ~opts.metadata =>
        /\ FindingsOf(out) = <<>>
        /\ ret # "Resolver::pkg"

====
